---- MODULE Spec2Model ----
(***************************************************************************)
(* TwoPhaser (src/utils/TwoPhaser.py): a context manager that writes a     *)
(* file through a two-phase commit over three sibling files, the primary   *)
(* P, the backup B (.bak) and the temporary T (.tmp), plus a transient     *)
(* probe file R (.prb).                                                    *)
(*                                                                         *)
(* The state is the file system (existence and content of P, B, T, R),     *)
(* the fields of the one TwoPhaser object of the running session, the      *)
(* position of the with-statement (pc), and history variables used by the  *)
(* properties.  A process kill (Crash) can interrupt a session between any *)
(* two file-system operations.                                             *)
(***************************************************************************)
EXTENDS Integers, Sequences, FiniteSets, TLC

\* ------------------------------------------------------------------ bounds
MaxLen == 1
MaxSessions == 3

Chars == {"a", "b"}
Contents == UNION {[1..n -> Chars] : n \in 0..MaxLen}

Paths == {"P", "B", "T", "R"}
Modes == {"r", "w", "a", "x", "r+"}

\* ------------------------------------------------------------ file system
Absent == [exists |-> FALSE, content |-> <<>>]
File(s) == [exists |-> TRUE, content |-> s]
FileStates == {Absent} \cup {File(s) : s \in Contents}

\* io: the handle's writable() for an open mode
ModeWritable(m) == m \in {"w", "a", "x", "r+"}

\* pathlib.Path.open(mode): the error raised ("none" when it succeeds), the
\* file system after the call and the writability of the handle obtained
OpenFile(f, p, m) ==
  IF m \in {"r", "r+"} THEN
    IF f[p].exists
      THEN [err |-> "none", fs |-> f, writable |-> ModeWritable(m)]
      ELSE [err |-> "FileNotFoundError", fs |-> f, writable |-> FALSE]
  ELSE IF m = "w" THEN
    [err |-> "none", fs |-> [f EXCEPT ![p] = File(<<>>)], writable |-> TRUE]
  ELSE IF m = "a" THEN
    [err |-> "none",
     fs |-> IF f[p].exists THEN f ELSE [f EXCEPT ![p] = File(<<>>)],
     writable |-> TRUE]
  ELSE \* "x"
    IF f[p].exists
      THEN [err |-> "FileExistsError", fs |-> f, writable |-> FALSE]
      ELSE [err |-> "none", fs |-> [f EXCEPT ![p] = File(<<>>)],
            writable |-> TRUE]

\* the content of a file after one character is written through a handle
\* opened with mode m and standing at offset pos (append mode writes at the
\* end whatever the offset)
WriteAt(s, m, pos, c) ==
  IF m = "a" \/ pos >= Len(s)
    THEN Append(s, c)
    ELSE [s EXCEPT ![pos + 1] = c]

\* the content of a file after the characters of X from index pos on are
\* written through a handle opened with mode m
RECURSIVE WriteAll(_, _, _, _)
WriteAll(s, m, pos, X) ==
  IF pos >= Len(X) THEN s
  ELSE WriteAll(WriteAt(s, m, pos, X[pos + 1]), m, pos + 1, X)

\* the content of a file after the characters of b are written from offset
\* pos on through a handle opened with mode m
RECURSIVE WriteBuf(_, _, _, _)
WriteBuf(s, m, pos, b) ==
  IF b = <<>> THEN s
  ELSE WriteBuf(WriteAt(s, m, pos, Head(b)), m, pos + 1, Tail(b))

\* the file system after the buffer of handle h is written out; nothing of
\* it reaches a path that was unlinked under the handle
Flushed(f, h) ==
  IF h.buf = <<>> \/ h.orphan.exists THEN f
  ELSE [f EXCEPT ![h.path] =
          File(WriteBuf(f[h.path].content, h.mode, h.pos - Len(h.buf),
                        h.buf))]

\* the built-in open: what P is after `with open(P, m) as f: f.write(X)`
\* on file system f (nothing is written when the open fails or the handle
\* is not writable)
PlainOpen(f, m, X) ==
  LET r == OpenFile(f, "P", m) IN
    IF r.err # "none" \/ ~r.writable THEN f["P"]
    ELSE File(WriteAll(r.fs["P"].content, m, 0, X))

\* Path.unlink(): the exception it raises
unlink_err(f, p) == IF f[p].exists THEN "none" ELSE "FileNotFoundError"

\* Path.rename(): the exception it raises
rename_err(f, from, to) ==
  IF f[from].exists THEN "none" ELSE "FileNotFoundError"

\* mutant: the delete is skipped
safe_delete_skipped(f, p) == f

\* Path.unlink() under except FileNotFoundError: pass
safe_delete(f, p) == [f EXCEPT ![p] = Absent]

\* Path.rename() under except FileNotFoundError: pass; a rename replaces
\* an existing target
safe_rename(f, from, to) ==
  IF f[from].exists
    THEN [f EXCEPT ![to] = f[from], ![from] = Absent]
    ELSE f

\* mutant: _safe_delete without its except clause
safe_delete_err_unguarded(f, p) == unlink_err(f, p)

\* the exception that leaves _safe_delete: FileNotFoundError is passed over
safe_delete_err(f, p) ==
  IF unlink_err(f, p) = "FileNotFoundError" THEN "none" ELSE unlink_err(f, p)

\* the exception that leaves _safe_rename: FileNotFoundError is passed over
safe_rename_err(f, from, to) ==
  IF rename_err(f, from, to) = "FileNotFoundError"
    THEN "none" ELSE rename_err(f, from, to)

\* mutant: the roll forward copies T to P and leaves T in place
recover_copy(f) ==
  IF f["T"].exists THEN
    IF f["P"].exists THEN safe_delete(f, "T")
    ELSE IF f["B"].exists THEN [f EXCEPT !["P"] = f["T"]]
    ELSE safe_delete(f, "T")
  ELSE f

\* mutant: a lone backup is promoted by recovery (the branch that the
\* source has commented out)
recover_eager(f) ==
  IF f["T"].exists THEN
    IF f["P"].exists THEN safe_delete(f, "T")
    ELSE IF f["B"].exists THEN safe_rename(f, "T", "P")
    ELSE safe_delete(f, "T")
  ELSE IF f["B"].exists /\ ~f["P"].exists THEN safe_rename(f, "B", "P")
  ELSE f

\* mutant: a temporary file is always discarded, never rolled forward
recover_discard(f) ==
  IF f["T"].exists THEN safe_delete(f, "T") ELSE f

\* TwoPhaser._recover
recover(f) ==
  IF f["T"].exists THEN
    IF f["P"].exists THEN safe_delete(f, "T")
    ELSE IF f["B"].exists THEN safe_rename(f, "T", "P")
    ELSE safe_delete(f, "T")
  ELSE f

\* TwoPhaser._recover: the operation its existence checks decide on
recover_op(f) ==
  IF f["T"].exists THEN
    IF f["P"].exists THEN "delete"
    ELSE IF f["B"].exists THEN "rename"
    ELSE "delete"
  ELSE "none"

\* TwoPhaser._recover: the decided operation carried out on file system f
recover_do(f, op) ==
  IF op = "delete" THEN safe_delete(f, "T")
  ELSE IF op = "rename" THEN safe_rename(f, "T", "P")
  ELSE f

\* TwoPhaser._recover: the exception raised inside the decided operation
recover_raw(f, op) ==
  IF op = "delete" THEN unlink_err(f, "T")
  ELSE IF op = "rename" THEN rename_err(f, "T", "P")
  ELSE "none"

\* TwoPhaser._recover: the exception that leaves the decided operation
recover_err(f, op) ==
  IF op = "delete" THEN safe_delete_err(f, "T")
  ELSE IF op = "rename" THEN safe_rename_err(f, "T", "P")
  ELSE "none"

\* mutant: a read is served from the backup whenever there is one
path_to_use_backup_first(f, w) ==
  IF w THEN "T"
  ELSE IF f["B"].exists THEN "B"
  ELSE "P"

\* TwoPhaser.__enter__: the file that backs the handle
path_to_use(f, w) ==
  IF w THEN "T"
  ELSE IF f["B"].exists /\ ~f["P"].exists THEN "B"
  ELSE "P"

\* ------------------------------------------------------------------ state
VARIABLES
  fs,        \* Paths -> FileStates
  pc,        \* position of the session
  mode,      \* the open mode passed to two_phase_open
  writable,  \* self._writable, the probed writability
  file,      \* self._file: the open handle, or NoFile
  perr,      \* exception raised by the probe's open, pending in its finally
  normal,    \* the argument of _close
  raising,   \* exception propagating to the caller of the session
  data,      \* what the caller's with-body writes
  got,       \* what the caller's with-body read
  outcome,   \* how the session ended
  pre,       \* history: fs when the session was opened
  post,      \* history: fs when _recover returned
  atClose,   \* history: fs when the handle was closed
  prev,      \* history: summary of the previous session
  nsess,     \* number of sessions ended
  hlog,      \* history: backing handles opened and closed by the session
  rop,       \* the operation _recover has decided on and not yet done
  use        \* path_to_use, chosen and not yet opened

vars == <<fs, pc, mode, writable, file, perr, normal, raising, data, got,
          outcome, pre, post, atClose, prev, nsess, hlog, rop, use>>

\* pos counts the characters the body has written, buf holds those of them
\* that are still in the handle's buffer and not in the file; orphan is the
\* content of the handle's file once its path is unlinked while the handle
\* is open
NoFile == [path |-> "-", mode |-> "-", pos |-> 0, buf |-> <<>>,
           orphan |-> Absent]
NoLog == [opened |-> 0, closed |-> 0, absorbed |-> {}]

\* the log after step op, whose unlink or rename raised raw: a
\* FileNotFoundError passed over by _safe_delete or _safe_rename is noted
Absorb(h, op, raw) ==
  IF raw = "FileNotFoundError"
    THEN [h EXCEPT !.absorbed = h.absorbed \cup {op}]
    ELSE h
NoGot == [read |-> FALSE, content |-> <<>>]
NoPrev == [outcome |-> "none", wsession |-> FALSE, full |-> FALSE,
           data |-> <<>>, P |-> Absent, B |-> Absent, preP |-> Absent,
           at |-> "-"]
NoFs == [p \in Paths |-> Absent]

\* no session is open; the files are whatever an earlier run left: any
\* triple P, B, T, and an empty probe file when a run was killed inside the
\* probe's with-statement
Init ==
  /\ fs \in [Paths -> FileStates]
  /\ fs["R"] \in {Absent, File(<<>>)}
  /\ pc = "idle"
  /\ mode = "-"
  /\ writable = FALSE
  /\ file = NoFile
  /\ perr = "none"
  /\ normal = FALSE
  /\ raising = "none"
  /\ data = <<>>
  /\ got = NoGot
  /\ outcome = "none"
  /\ pre = NoFs
  /\ post = NoFs
  /\ atClose = NoFs
  /\ prev = NoPrev
  /\ nsess = 0
  /\ hlog = NoLog
  /\ rop = "-"
  /\ use = "-"

\* ---------------------------------------------------------------- actions

\* two_phase_open(P, m) entered by a with-statement: __enter__ up to the
\* probe's open and the query of its writability; the probe handle is
\* closed by the inner with
Enter(m) ==
  /\ pc = "idle"
  /\ nsess < MaxSessions
  /\ LET r == OpenFile(fs, "R", m) IN
       /\ fs' = r.fs
       /\ perr' = r.err
       /\ writable' = IF r.err = "none" THEN r.writable ELSE FALSE
  /\ mode' = m
  /\ pre' = fs
  /\ post' = NoFs
  /\ atClose' = NoFs
  /\ outcome' = "none"
  /\ raising' = "none"
  /\ normal' = FALSE
  /\ data' = <<>>
  /\ got' = NoGot
  /\ pc' = "probe_finally"
  /\ hlog' = NoLog
  /\ UNCHANGED <<file, prev, nsess, rop, use>>

\* mutant: the probe file is not removed
ProbeFinally_keep ==
  /\ pc = "probe_finally"
  /\ IF perr \in {"none", "FileNotFoundError"}
       THEN /\ pc' = "recover"
            /\ UNCHANGED <<outcome, raising>>
       ELSE /\ pc' = "done"
            /\ outcome' = perr
            /\ raising' = perr
  /\ perr' = "none"
  /\ UNCHANGED <<fs, mode, writable, file, normal, data, got, pre, post,
                 atClose, prev, nsess,
                 hlog, rop, use>>

\* mutant: the probe file is removed after the with, not in a finally
ProbeFinally_no_finally ==
  /\ pc = "probe_finally"
  /\ fs' = IF fs["R"].exists /\ perr = "none"
             THEN [fs EXCEPT !["R"] = Absent] ELSE fs
  /\ IF perr \in {"none", "FileNotFoundError"}
       THEN /\ pc' = "recover"
            /\ UNCHANGED <<outcome, raising>>
       ELSE /\ pc' = "done"
            /\ outcome' = perr
            /\ raising' = perr
  /\ perr' = "none"
  /\ UNCHANGED <<mode, writable, file, normal, data, got, pre, post, atClose,
                 prev, nsess, hlog, rop, use>>

\* the probe's finally clause and the except FileNotFoundError around it;
\* any other exception of the probe's open leaves __enter__
ProbeFinally ==
  /\ pc = "probe_finally"
  /\ fs' = IF fs["R"].exists THEN [fs EXCEPT !["R"] = Absent] ELSE fs
  /\ IF perr \in {"none", "FileNotFoundError"}
       THEN /\ pc' = "recover"
            /\ UNCHANGED <<outcome, raising>>
       ELSE /\ pc' = "done"
            /\ outcome' = perr
            /\ raising' = perr
  /\ perr' = "none"
  /\ UNCHANGED <<mode, writable, file, normal, data, got, pre, post, atClose,
                 prev, nsess,
                 hlog, rop, use>>

\* self._recover()
Recover ==
  /\ pc = "recover"
  /\ fs' = recover(fs)
  /\ post' = fs'
  /\ LET e == recover_err(fs, recover_op(fs)) IN
       IF e = "none"
         THEN pc' = "select" /\ UNCHANGED <<outcome, raising>>
         ELSE pc' = "done" /\ outcome' = "CleanupError" /\ raising' = e
  /\ hlog' = Absorb(hlog, "recover", recover_raw(fs, recover_op(fs)))
  /\ UNCHANGED <<mode, writable, file, perr, normal, data, got,
                 pre, atClose, prev, nsess, rop, use>>

\* _recover up to its existence checks, when another actor may delete files
\* before the operation they decide on
RecoverCheck ==
  /\ pc = "recover"
  /\ rop' = recover_op(fs)
  /\ pc' = "recover_act"
  /\ UNCHANGED <<fs, mode, writable, file, perr, normal, raising, data, got,
                 outcome, pre, post, atClose, prev, nsess, hlog, use>>

\* _recover: the _safe_delete or _safe_rename decided on
RecoverAct ==
  /\ pc = "recover_act"
  /\ fs' = recover_do(fs, rop)
  /\ post' = fs'
  /\ rop' = "-"
  /\ LET e == recover_err(fs, rop) IN
       IF e = "none"
         THEN pc' = "select" /\ UNCHANGED <<outcome, raising>>
         ELSE pc' = "done" /\ outcome' = "CleanupError" /\ raising' = e
  /\ hlog' = Absorb(hlog, "recover", recover_raw(fs, rop))
  /\ UNCHANGED <<mode, writable, file, perr, normal, data, got,
                 pre, atClose, prev, nsess, use>>

\* mutant: the handle is returned without the writability check
OpenBacking_unchecked(X) ==
  /\ pc = "select"
  /\ writable \/ X = <<>>
  /\ LET p == path_to_use(fs, writable)
         r == OpenFile(fs, p, mode) IN
       /\ fs' = r.fs
       /\ IF r.err # "none" THEN
            /\ pc' = "done"
            /\ outcome' = r.err
            /\ raising' = r.err
            /\ UNCHANGED <<file, hlog>>
          ELSE
            /\ file' = [path |-> p, mode |-> mode, pos |-> 0,
                        buf |-> <<>>, orphan |-> Absent]
            /\ hlog' = [hlog EXCEPT !.opened = hlog.opened + 1]
            /\ pc' = "open"
            /\ UNCHANGED <<outcome, raising>>
  /\ data' = X
  /\ UNCHANGED <<mode, writable, perr, got, pre, post, prev, nsess, rop, use,
                 atClose, normal>>

\* the choice of path_to_use, its open and the writability check; a
\* mismatch closes the handle (first statements of _close(False)); X is
\* what the caller's with-body is going to write
OpenBacking(X) ==
  /\ pc = "select"
  /\ writable \/ X = <<>>
  /\ LET p == path_to_use(fs, writable)
         r == OpenFile(fs, p, mode) IN
       /\ fs' = r.fs
       /\ IF r.err # "none" THEN
            /\ pc' = "done"
            /\ outcome' = r.err
            /\ raising' = r.err
            /\ UNCHANGED <<file, atClose, normal, hlog>>
          ELSE IF r.writable # writable THEN
            /\ raising' = "WritableMismatch"
            /\ normal' = FALSE
            /\ file' = NoFile
            /\ atClose' = r.fs
            /\ hlog' = [hlog EXCEPT !.opened = hlog.opened + 1,
                                    !.closed = hlog.closed + 1]
            /\ IF writable
                 THEN pc' = "rollback" /\ UNCHANGED outcome
                 ELSE pc' = "done" /\ outcome' = "WritableMismatch"
          ELSE
            /\ file' = [path |-> p, mode |-> mode, pos |-> 0,
                        buf |-> <<>>, orphan |-> Absent]
            /\ hlog' = [hlog EXCEPT !.opened = hlog.opened + 1]
            /\ pc' = "open"
            /\ UNCHANGED <<outcome, raising, atClose, normal>>
  /\ data' = X
  /\ UNCHANGED <<mode, writable, perr, got, pre, post, prev, nsess, rop, use>>

\* the caller's with-body writes the next character of its data: it goes
\* to the buffer of the handle, the file is not touched
WriteStep ==
  /\ pc = "open"
  /\ ModeWritable(file.mode)
  /\ file.pos < Len(data)
  /\ file' = [file EXCEPT !.pos = file.pos + 1,
                          !.buf = Append(file.buf, data[file.pos + 1])]
  /\ UNCHANGED <<fs, pc, mode, writable, perr, normal, raising, data, got,
                 outcome, pre, post, atClose, prev, nsess,
                 hlog, rop, use>>

\* the buffer of the handle is written out while the body runs: it is full
\* or the body calls flush
Flush ==
  /\ pc = "open"
  /\ file.buf # <<>>
  /\ fs' = Flushed(fs, file)
  /\ file' = [file EXCEPT
                !.buf = <<>>,
                !.orphan = IF file.orphan.exists
                             THEN File(WriteBuf(file.orphan.content,
                                                file.mode,
                                                file.pos - Len(file.buf),
                                                file.buf))
                             ELSE file.orphan]
  /\ UNCHANGED <<pc, mode, writable, perr, normal, raising, data, got,
                 outcome, pre, post, atClose, prev, nsess,
                 hlog, rop, use>>

\* the caller's with-body reads the whole file
Read ==
  /\ pc = "open"
  /\ ~ModeWritable(file.mode)
  /\ ~got.read
  /\ got' = [read |-> TRUE,
             content |-> IF file.orphan.exists THEN file.orphan.content
                         ELSE fs[file.path].content]
  /\ UNCHANGED <<fs, pc, mode, writable, file, perr, normal, raising, data,
                 outcome, pre, post, atClose, prev, nsess,
                 hlog, rop, use>>

\* mutant: __exit__ always calls _close(True)
Exit_always_normal(n) ==
  /\ pc = "open"
  /\ n /\ ModeWritable(file.mode) => file.pos = Len(data)
  /\ normal' = TRUE
  /\ raising' = IF n THEN "none" ELSE "CallerError"
  /\ file' = NoFile
  /\ fs' = Flushed(fs, file)
  /\ atClose' = fs'
  /\ hlog' = [hlog EXCEPT !.closed = hlog.closed + 1]
  /\ IF writable
       THEN /\ pc' = "commit"
            /\ UNCHANGED outcome
       ELSE /\ pc' = "done"
            /\ outcome' = IF n THEN "read" ELSE "read_error"
  /\ UNCHANGED <<mode, writable, perr, data, got, pre, post, prev, nsess,
                 rop, use>>

\* mutant: _close does not look at self._writable
Exit_unguarded(n) ==
  /\ pc = "open"
  /\ n /\ ModeWritable(file.mode) => file.pos = Len(data)
  /\ normal' = n
  /\ raising' = IF n THEN "none" ELSE "CallerError"
  /\ file' = NoFile
  /\ fs' = Flushed(fs, file)
  /\ atClose' = fs'
  /\ hlog' = [hlog EXCEPT !.closed = hlog.closed + 1]
  /\ pc' = IF n THEN "commit" ELSE "rollback"
  /\ UNCHANGED <<mode, writable, perr, data, got, pre, post, prev, nsess,
                 rop, use, outcome>>

\* __exit__(exception_type, ...) calling _close(exception_type is None), up
\* to self._file.close(); n is TRUE when the with-body ended without an
\* exception, which for a writing body is after its write returned
Exit(n) ==
  /\ pc = "open"
  /\ n /\ ModeWritable(file.mode) => file.pos = Len(data)
  /\ normal' = n
  /\ raising' = IF n THEN "none" ELSE "CallerError"
  /\ file' = NoFile
  /\ fs' = Flushed(fs, file)
  /\ atClose' = fs'
  /\ hlog' = [hlog EXCEPT !.closed = hlog.closed + 1]
  /\ IF writable
       THEN /\ pc' = IF n THEN "commit" ELSE "rollback"
            /\ UNCHANGED outcome
       ELSE /\ pc' = "done"
            /\ outcome' = IF n THEN "read" ELSE "read_error"
  /\ UNCHANGED <<mode, writable, perr, data, got, pre, post, prev, nsess,
                 rop, use>>

\* mutant: the old primary is never demoted
CommitCheck_no_demote ==
  /\ pc = "commit"
  /\ pc' = "promote"
  /\ UNCHANGED <<fs, mode, writable, file, perr, normal, raising, data, got,
                 outcome, pre, post, atClose, prev, nsess,
                 hlog, rop, use>>

\* _close: if self._primary_path.exists()
CommitCheck ==
  /\ pc = "commit"
  /\ pc' = IF fs["P"].exists THEN "delete_backup" ELSE "promote"
  /\ UNCHANGED <<fs, mode, writable, file, perr, normal, raising, data, got,
                 outcome, pre, post, atClose, prev, nsess,
                 hlog, rop, use>>

\* mutant: the primary is deleted in place of the old backup
DeleteBackup_primary ==
  /\ pc = "delete_backup"
  /\ fs' = safe_delete(fs, "P")
  /\ LET e == safe_delete_err(fs, "P") IN
       IF e = "none"
         THEN pc' = "demote" /\ UNCHANGED <<outcome, raising>>
         ELSE pc' = "done" /\ outcome' = "CleanupError" /\ raising' = e
  /\ UNCHANGED hlog
  /\ UNCHANGED <<mode, writable, file, perr, normal, data, got,
                 pre, post, atClose, prev, nsess, rop, use>>

\* _close: self._safe_delete(self._backup_path)
DeleteBackup ==
  /\ pc = "delete_backup"
  /\ fs' = safe_delete(fs, "B")
  /\ LET e == safe_delete_err(fs, "B") IN
       IF e = "none"
         THEN pc' = "demote" /\ UNCHANGED <<outcome, raising>>
         ELSE pc' = "done" /\ outcome' = "CleanupError" /\ raising' = e
  /\ hlog' = Absorb(hlog, "delete_backup", unlink_err(fs, "B"))
  /\ UNCHANGED <<mode, writable, file, perr, normal, data, got,
                 pre, post, atClose, prev, nsess, rop, use>>

\* mutant: the rename of the primary to the backup is left out
Demote_skipped ==
  /\ pc = "demote"
  /\ pc' = "promote"
  /\ UNCHANGED <<fs, mode, writable, file, perr, normal, raising, data, got,
                 outcome, pre, post, atClose, prev, nsess,
                 hlog, rop, use>>

\* mutant: the primary is deleted, not renamed to the backup
Demote_deletes ==
  /\ pc = "demote"
  /\ fs' = safe_delete(fs, "P")
  /\ LET e == safe_delete_err(fs, "P") IN
       IF e = "none"
         THEN pc' = "promote" /\ UNCHANGED <<outcome, raising>>
         ELSE pc' = "done" /\ outcome' = "CleanupError" /\ raising' = e
  /\ UNCHANGED hlog
  /\ UNCHANGED <<mode, writable, file, perr, normal, data, got,
                 pre, post, atClose, prev, nsess, rop, use>>

\* _close: self._safe_rename(self._primary_path, self._backup_path)
Demote ==
  /\ pc = "demote"
  /\ fs' = safe_rename(fs, "P", "B")
  /\ LET e == safe_rename_err(fs, "P", "B") IN
       IF e = "none"
         THEN pc' = "promote" /\ UNCHANGED <<outcome, raising>>
         ELSE pc' = "done" /\ outcome' = "CleanupError" /\ raising' = e
  /\ hlog' = Absorb(hlog, "demote", rename_err(fs, "P", "B"))
  /\ UNCHANGED <<mode, writable, file, perr, normal, data, got,
                 pre, post, atClose, prev, nsess, rop, use>>

\* mutant: the arguments of the last rename are swapped
Promote_swapped ==
  /\ pc = "promote"
  /\ fs' = safe_rename(fs, "P", "T")
  /\ pc' = "done"
  /\ outcome' = "commit"
  /\ UNCHANGED <<mode, writable, file, perr, normal, raising, data, got,
                 pre, post, atClose, prev, nsess,
                 hlog, rop, use>>

\* _close: self._safe_rename(self._temporary_path, self._primary_path)
Promote ==
  /\ pc = "promote"
  /\ fs' = safe_rename(fs, "T", "P")
  /\ pc' = "done"
  /\ LET e == safe_rename_err(fs, "T", "P") IN
       IF e = "none"
         THEN outcome' = "commit" /\ UNCHANGED raising
         ELSE outcome' = "CleanupError" /\ raising' = e
  /\ hlog' = Absorb(hlog, "promote", rename_err(fs, "T", "P"))
  /\ UNCHANGED <<mode, writable, file, perr, normal, data, got,
                 pre, post, atClose, prev, nsess, rop, use>>

\* mutant: an aborted session promotes its temporary file
Rollback_promotes ==
  /\ pc = "rollback"
  /\ fs' = safe_rename(fs, "T", "P")
  /\ pc' = "done"
  /\ outcome' = IF raising = "WritableMismatch" THEN "WritableMismatch"
                ELSE "rollback"
  /\ UNCHANGED <<mode, writable, file, perr, normal, raising, data, got,
                 pre, post, atClose, prev, nsess,
                 hlog, rop, use>>

\* _close: self._safe_delete(self._temporary_path)
Rollback ==
  /\ pc = "rollback"
  /\ fs' = safe_delete(fs, "T")
  /\ pc' = "done"
  /\ LET e == safe_delete_err(fs, "T") IN
       IF e = "none"
         THEN /\ outcome' = IF raising = "WritableMismatch"
                              THEN "WritableMismatch" ELSE "rollback"
              /\ UNCHANGED raising
         ELSE outcome' = "CleanupError" /\ raising' = e
  /\ hlog' = Absorb(hlog, "rollback", unlink_err(fs, "T"))
  /\ UNCHANGED <<mode, writable, file, perr, normal, data, got,
                 pre, post, atClose, prev, nsess, rop, use>>

\* the with-statement is left (normally or by the propagating exception) and
\* the TwoPhaser object is dropped
Leave ==
  /\ pc = "done"
  /\ pc' = "idle"
  /\ prev' = [outcome |-> outcome, wsession |-> writable /\ outcome \in
                {"commit", "rollback"}, full |-> outcome = "commit",
              data |-> data, P |-> post["P"], B |-> post["B"],
              preP |-> pre["P"], at |-> "-"]
  /\ nsess' = nsess + 1
  /\ mode' = "-"
  /\ writable' = FALSE
  /\ normal' = FALSE
  /\ raising' = "none"
  /\ data' = <<>>
  /\ got' = NoGot
  /\ outcome' = "none"
  /\ pre' = NoFs
  /\ post' = NoFs
  /\ atClose' = NoFs
  /\ hlog' = NoLog
  /\ UNCHANGED <<fs, file, perr, rop, use>>

\* the positions of a session at which a handle on T has been obtained
WritePoints == {"open", "commit", "delete_backup", "demote", "promote",
                "rollback"}

\* the process is killed: the object and the handle vanish, the files stay
Crash ==
  /\ pc \notin {"idle", "done"}
  /\ pc' = "idle"
  /\ prev' = IF writable /\ pc \in WritePoints
               THEN [outcome |-> "crash", wsession |-> TRUE,
                     full |-> (pc # "open" \/ file.pos = Len(data))
                              /\ raising = "none",
                     data |-> data, P |-> post["P"], B |-> post["B"],
                     preP |-> pre["P"],
                     at |-> IF pc = "promote" THEN "promote" ELSE "before"]
               ELSE [NoPrev EXCEPT !.outcome = "crash"]
  /\ nsess' = nsess + 1
  /\ mode' = "-"
  /\ writable' = FALSE
  /\ file' = NoFile
  /\ perr' = "none"
  /\ normal' = FALSE
  /\ raising' = "none"
  /\ data' = <<>>
  /\ got' = NoGot
  /\ outcome' = "none"
  /\ pre' = NoFs
  /\ post' = NoFs
  /\ atClose' = NoFs
  /\ hlog' = NoLog
  /\ rop' = "-"
  /\ use' = "-"
  /\ UNCHANGED fs

Next ==
  \/ \E m \in Modes : Enter(m)
  \/ ProbeFinally
  \/ Recover
  \/ \E X \in Contents : OpenBacking(X)
  \/ WriteStep
  \/ Flush
  \/ Read
  \/ \E n \in BOOLEAN : Exit(n)
  \/ CommitCheck
  \/ DeleteBackup
  \/ Demote
  \/ Promote
  \/ Rollback
  \/ Leave
  \/ Crash

Spec == Init /\ [][Next]_vars

\* __enter__: the existence checks that choose path_to_use, when another
\* actor may delete files before the path is opened
SelectPath ==
  /\ pc = "select"
  /\ use' = path_to_use(fs, writable)
  /\ pc' = "opening"
  /\ UNCHANGED <<fs, mode, writable, file, perr, normal, raising, data, got,
                 outcome, pre, post, atClose, prev, nsess, hlog, rop>>

\* __enter__: path_to_use.open(...) and the query of the handle's
\* writability; on a mismatch the handle stays open until _close(False)
OpenSelected(X) ==
  /\ pc = "opening"
  /\ writable \/ X = <<>>
  /\ LET r == OpenFile(fs, use, mode) IN
       /\ fs' = r.fs
       /\ IF r.err # "none" THEN
            /\ pc' = "done"
            /\ outcome' = r.err
            /\ raising' = r.err
            /\ UNCHANGED <<file, hlog>>
          ELSE
            /\ file' = [path |-> use, mode |-> mode, pos |-> 0,
                        buf |-> <<>>, orphan |-> Absent]
            /\ hlog' = [hlog EXCEPT !.opened = hlog.opened + 1]
            /\ pc' = IF r.writable # writable THEN "mismatch" ELSE "open"
            /\ UNCHANGED <<outcome, raising>>
  /\ data' = X
  /\ use' = "-"
  /\ UNCHANGED <<mode, writable, perr, normal, got, pre, post, atClose,
                 prev, nsess, rop>>

\* __enter__: raise WritableMismatch() caught by the except clause, up to
\* the close of the handle in _close(False)
MismatchClose ==
  /\ pc = "mismatch"
  /\ raising' = "WritableMismatch"
  /\ normal' = FALSE
  /\ fs' = Flushed(fs, file)
  /\ file' = NoFile
  /\ atClose' = fs'
  /\ hlog' = [hlog EXCEPT !.closed = hlog.closed + 1]
  /\ IF writable
       THEN pc' = "rollback" /\ UNCHANGED outcome
       ELSE pc' = "done" /\ outcome' = "WritableMismatch"
  /\ UNCHANGED <<mode, writable, perr, data, got, pre, post, prev, nsess,
                 rop, use>>

\* the positions from the start of _recover to the end of _close
ExternalPoints == {"recover", "recover_act", "select", "opening", "mismatch",
                   "open", "commit", "delete_backup", "demote", "promote",
                   "rollback"}

\* another actor deletes P, B or T while the session is between recovery
\* and the end of its commit or rollback; an open handle keeps the content
ExternalDelete(p) ==
  /\ pc \in ExternalPoints
  /\ p \in {"P", "B", "T"}
  /\ fs[p].exists
  /\ fs' = [fs EXCEPT ![p] = Absent]
  /\ file' = IF file.path = p THEN [file EXCEPT !.orphan = fs[p]] ELSE file
  /\ UNCHANGED <<pc, mode, writable, perr, normal, raising, data, got,
                 outcome, pre, post, atClose, prev, nsess, hlog, rop, use>>

\* one session, on any files, of a process that is not killed, with files
\* vanishing under it
NextExt ==
  \/ \E m \in Modes : nsess = 0 /\ Enter(m)
  \/ ProbeFinally
  \/ RecoverCheck
  \/ RecoverAct
  \/ SelectPath
  \/ \E X \in Contents : OpenSelected(X)
  \/ MismatchClose
  \/ WriteStep
  \/ Flush
  \/ Read
  \/ \E n \in BOOLEAN : Exit(n)
  \/ CommitCheck
  \/ DeleteBackup
  \/ Demote
  \/ Promote
  \/ Rollback
  \/ Leave
  \/ \E p \in Paths : ExternalDelete(p)

SpecExt == Init /\ [][NextExt]_vars

\* ------------------------------------------------------------- properties

\* how a session ends in the ways named by the lifecycle rule for T
ListedEnds == {"commit", "rollback", "read", "read_error",
               "FileNotFoundError", "WritableMismatch"}

\* the triple P, B, T is absent in file system f
NoTriple(f) == ~f["P"].exists /\ ~f["B"].exists /\ ~f["T"].exists

\* C1: crash atomicity.  When a write session was killed after it got its
\* handle on T, the recovery of the next session leaves T absent and P
\* holding either what P held when the killed session got its handle or the
\* content that session had written completely; never a partial content.
CrashAtomicity ==
  (pc = "select" /\ prev.outcome = "crash" /\ prev.wsession) =>
     /\ ~fs["T"].exists
     /\ \/ fs["P"] = prev.P
        \/ prev.full /\ fs["P"] = File(prev.data)

\* C2: write sequencing.  When two writable sessions in a row close
\* normally, after the second P holds what the second wrote, B holds what
\* the first wrote, and neither T nor R exists.
WriteSequencing ==
  (pc = "done" /\ outcome = "commit" /\ prev.outcome = "commit") =>
     /\ fs["P"] = File(data)
     /\ fs["B"] = File(prev.data)
     /\ ~fs["T"].exists
     /\ ~fs["R"].exists

WriteSequencingWitness ==
  /\ pc = "done" /\ outcome = "commit" /\ prev.outcome = "commit"
  /\ nsess = 2
  /\ data # prev.data
  /\ fs["P"] = File(data) /\ fs["B"] = File(prev.data)

\* C3 as stated: after a writable session closed by an exception T is
\* absent and P and B are what they were before open_session was called,
\* and a read session that follows returns the pre-session content of P.
RollbackPreSession ==
  /\ (pc = "done" /\ outcome = "rollback") =>
        /\ ~fs["T"].exists
        /\ fs["P"] = pre["P"]
        /\ fs["B"] = pre["B"]
  /\ (pc = "open" /\ prev.outcome = "rollback" /\ got.read
        /\ prev.preP.exists) =>
        got.content = prev.preP.content

\* the pre-session triple that recovery rolls forward
RollsForward(f) == f["T"].exists /\ ~f["P"].exists /\ f["B"].exists

\* C3 amended: after a writable session closed by an exception T is absent
\* and P and B are what they were when recovery returned at the start of the
\* session, which is the pre-session P and B unless the session began with
\* T and B present and P absent; a read session that follows is backed by
\* that P when it exists, does not fail to open, and returns its content.
RollbackRestores ==
  /\ (pc = "done" /\ outcome = "rollback") =>
        /\ ~fs["T"].exists
        /\ fs["P"] = post["P"]
        /\ fs["B"] = post["B"]
        /\ ~RollsForward(pre) => fs["P"] = pre["P"] /\ fs["B"] = pre["B"]
  /\ (pc = "open" /\ prev.outcome = "rollback" /\ got.read
        /\ prev.P.exists) =>
        file.path = "P" /\ got.content = prev.P.content
  /\ (pc = "done" /\ mode = "r" /\ prev.outcome = "rollback"
        /\ prev.P.exists) =>
        outcome \in {"read", "read_error"}

RollbackRestoresWitness ==
  /\ pc = "open" /\ prev.outcome = "rollback" /\ got.read
  /\ prev.P.exists /\ prev.P.content # <<>>
  /\ prev.data # prev.P.content
  /\ got.content = prev.P.content

\* C4: recovery decision table.  When a session starts with T present, after
\* recovery T is absent and: with P present, P and B are as before; with P
\* absent and B present, P holds what T held and B is as before; with P and
\* B absent, both are still absent.
RecoveryTable ==
  (pc = "select" /\ pre["T"].exists) =>
     /\ ~fs["T"].exists
     /\ pre["P"].exists => fs["P"] = pre["P"] /\ fs["B"] = pre["B"]
     /\ (~pre["P"].exists /\ pre["B"].exists) =>
           fs["P"] = pre["T"] /\ fs["B"] = pre["B"]
     /\ (~pre["P"].exists /\ ~pre["B"].exists) =>
           ~fs["P"].exists /\ ~fs["B"].exists

RecoveryTableWitness ==
  /\ pc = "select" /\ RollsForward(pre)
  /\ pre["T"].content # pre["B"].content
  /\ fs["P"] = pre["T"] /\ fs["B"] = pre["B"] /\ ~fs["T"].exists

\* C5: commit.  After a writable session closed normally having written
\* data, T is absent and P holds data; B holds what P held when the handle
\* was closed if P existed then, and is as it was otherwise.
CommitEffect ==
  (pc = "done" /\ outcome = "commit") =>
     /\ ~fs["T"].exists
     /\ fs["P"] = File(data)
     /\ atClose["P"].exists => fs["B"] = atClose["P"]
     /\ ~atClose["P"].exists => fs["B"] = atClose["B"]

CommitEffectWitness ==
  /\ pc = "done" /\ outcome = "commit"
  /\ atClose["P"].exists /\ atClose["B"].exists
  /\ atClose["P"] # atClose["B"]
  /\ data # atClose["P"].content
  /\ fs["B"] = atClose["P"] /\ fs["P"] = File(data)

\* C6: backing-file selection.  The handle given to the caller is backed by
\* T in a writable session; in a read-only session it is backed by B exactly
\* when after recovery B exists and P does not, and by P otherwise, so that
\* a read that starts with T and B present and P absent is backed by P
\* holding what T held.
BackingSelection ==
  pc = "open" =>
     /\ writable => file.path = "T"
     /\ ~writable =>
          /\ file.path \in {"P", "B"}
          /\ file.path = "B" <=> (post["B"].exists /\ ~post["P"].exists)
          /\ RollsForward(pre) => file.path = "P" /\ fs["P"] = pre["T"]

BackingSelectionWitness ==
  /\ pc = "open" /\ ~writable /\ RollsForward(pre)
  /\ pre["T"].content # pre["B"].content
  /\ file.path = "P" /\ got.read /\ got.content = pre["T"].content

\* C7: round trip.  A session opened for reading after a writable session
\* closed normally gets a handle (its open does not fail), the handle is
\* backed by P, P holds what that session wrote, and the read returns it.
RoundTrip ==
  /\ (pc = "open" /\ ~writable /\ prev.outcome = "commit") =>
        /\ file.path = "P"
        /\ fs["P"] = File(prev.data)
        /\ got.read => got.content = prev.data
  /\ (pc = "done" /\ mode = "r" /\ prev.outcome = "commit") =>
        outcome \in {"read", "read_error"}

RoundTripWitness ==
  /\ pc = "open" /\ ~writable /\ prev.outcome = "commit"
  /\ got.read /\ got.content = prev.data /\ prev.data # <<>>
  /\ prev.preP.exists /\ prev.preP.content # prev.data

\* C8: a session opened for reading when none of P, B, T exists ends with
\* not-found, and P, B, T and R are absent afterwards.
ReadNothing ==
  (pc = "done" /\ mode = "r" /\ NoTriple(pre)) =>
     /\ outcome = "FileNotFoundError"
     /\ \A p \in Paths : ~fs[p].exists

ReadNothingWitness ==
  /\ pc = "done" /\ mode = "r" /\ NoTriple(pre)
  /\ pre["R"].exists
  /\ outcome = "FileNotFoundError"

\* C9: T does not survive a session that ends in one of the listed ways: a
\* writable session closed normally or by an exception, a read-only session
\* closed, an open failing with not-found or with a writability mismatch.
TemporaryGone ==
  (pc = "done" /\ outcome \in ListedEnds) => ~fs["T"].exists

TemporaryGoneWitness ==
  /\ pc = "done" /\ outcome = "rollback"
  /\ pre["T"].exists /\ pre["P"].exists
  /\ ~fs["T"].exists

\* C10: the probe predicts the writability of the backing handle for every
\* open mode: no session ends with WritableMismatch.
ProbeCorrect ==
  outcome # "WritableMismatch"

\* C11: drop-in equivalence with the built-in open.  After a session that
\* started with T absent and closed normally, P is what the built-in open
\* with the same mode and the same write would have left.
DropIn ==
  (pc = "done" /\ outcome \in {"commit", "read"} /\ ~pre["T"].exists) =>
     fs["P"] = PlainOpen(pre, mode, data)

\* C12: idempotent recovery.  Once recovery has run, running it again
\* leaves P, B, T and R as they are.
RecoverIdempotent ==
  pc = "select" => recover(fs) = fs

RecoverIdempotentWitness ==
  /\ pc = "select" /\ RollsForward(pre)
  /\ fs # [pre EXCEPT !["R"] = Absent]
  /\ recover(fs) = fs

\* C13: a session opened for reading that starts with T absent leaves P, B
\* and T as they were from open through close; with only B present the read
\* returns B's content.
ReadFrame ==
  (mode = "r" /\ pc # "idle" /\ ~pre["T"].exists) =>
     /\ fs["P"] = pre["P"] /\ fs["B"] = pre["B"] /\ fs["T"] = pre["T"]
     /\ (got.read /\ ~pre["P"].exists) => got.content = pre["B"].content
     /\ (got.read /\ pre["P"].exists) => got.content = pre["P"].content

ReadFrameWitness ==
  /\ mode = "r" /\ pc = "done" /\ outcome = "read"
  /\ ~pre["T"].exists /\ ~pre["P"].exists /\ pre["B"].exists
  /\ got.read /\ got.content = pre["B"].content /\ got.content # <<>>
  /\ ~fs["P"].exists /\ fs["B"] = pre["B"]

\* C14: when T is absent at the start of a session, read or write, recovery
\* changes none of P, B, T; a lone backup is not renamed to P.
RecoverNoAction ==
  (pc = "select" /\ ~pre["T"].exists) =>
     fs["P"] = pre["P"] /\ fs["B"] = pre["B"] /\ fs["T"] = pre["T"]

RecoverNoActionWitness ==
  /\ pc = "select" /\ writable
  /\ ~pre["T"].exists /\ ~pre["P"].exists /\ pre["B"].exists
  /\ ~fs["P"].exists /\ fs["B"] = pre["B"]

\* the positions of _close after the handle is closed
CommitPoints == {"commit", "delete_backup", "demote", "promote"}

\* C15: release runs exactly once.  A session opens at most one backing
\* handle and closes it exactly once by the time it ends; the commit steps
\* run only after the close, in a writable session whose body ended without
\* an exception, the rollback only after the close, with an exception
\* propagating; a read-only session changes no file after its close.
ReleaseOnce ==
  /\ hlog.opened <= 1 /\ hlog.closed <= hlog.opened
  /\ pc = "open" => hlog.opened = 1 /\ hlog.closed = 0 /\ file # NoFile
  /\ pc \in CommitPoints \cup {"rollback"} =>
        hlog.closed = 1 /\ file = NoFile /\ writable
  /\ pc \in CommitPoints => normal /\ raising = "none"
  /\ pc = "rollback" => ~normal /\ raising # "none"
  /\ pc = "done" => hlog.closed = hlog.opened /\ file = NoFile
  /\ (pc = "done" /\ hlog.opened = 1 /\ writable) =>
        (outcome = "commit" <=> raising = "none")
  /\ (pc = "done" /\ hlog.opened = 1 /\ ~writable) => fs = atClose

ReleaseOnceWitness ==
  /\ pc = "done" /\ outcome = "rollback" /\ raising = "CallerError"
  /\ hlog.opened = 1 /\ hlog.closed = 1
  /\ atClose["T"].exists /\ ~fs["T"].exists

\* C16: writability mismatch.  No handle whose writability differs from
\* the probed one reaches the caller: the session ends with
\* WritableMismatch, its handle closed, P and B as recovery left them and T
\* absent.
MismatchHandling ==
  /\ pc = "open" => ModeWritable(file.mode) = writable
  /\ raising = "WritableMismatch" =>
        /\ pc \in {"rollback", "done"}
        /\ file = NoFile /\ hlog.opened = 1 /\ hlog.closed = 1
  /\ (pc = "done" /\ raising = "WritableMismatch") =>
        /\ outcome = "WritableMismatch"
        /\ fs["P"] = post["P"] /\ fs["B"] = post["B"]
        /\ ~fs["T"].exists

MismatchHandlingWitness ==
  /\ pc = "done" /\ outcome = "WritableMismatch"
  /\ pre["T"].exists /\ post["P"].exists /\ post["B"].exists
  /\ fs["P"] = post["P"] /\ fs["B"] = post["B"] /\ ~fs["T"].exists

\* C17: the probe file R does not exist once probing has finished, whether
\* its open succeeded or failed and whether or not R existed before: not
\* while recovery, the handle or the close are under way, and not after a
\* session has ended.
ProbeGone ==
  /\ pc \notin {"idle", "probe_finally"} => ~fs["R"].exists
  /\ (pc = "idle" /\ prev.outcome \notin {"none", "crash"}) =>
        ~fs["R"].exists

ProbeGoneWitness ==
  /\ pc = "done" /\ outcome = "FileExistsError"
  /\ pre["R"].exists /\ ~fs["R"].exists

\* C18: not-found absorption.  With P, B and T deleted by another actor at
\* any point from recovery to the end of commit or rollback, no delete or
\* rename of recovery, commit or rollback raises: no session ends with an
\* error of its cleanup, and once the handle is closed the only exception
\* under way is the caller's own or the writability mismatch.
CleanupAbsorbed ==
  /\ outcome # "CleanupError"
  /\ (hlog.closed = 1 /\ pc \in CommitPoints \cup {"rollback", "done"}) =>
        raising \in {"none", "CallerError", "WritableMismatch"}
  /\ pc \in CommitPoints => raising = "none"

CleanupAbsorbedWitness ==
  /\ pc = "done" /\ outcome = "commit" /\ raising = "none"
  /\ pre["T"].exists /\ atClose["P"].exists
  /\ {"recover", "demote"} \subseteq hlog.absorbed

\* C19: committed data is never left without a copy.  No step of a
\* session, no crash and no recovery leads from a state in which P or B
\* exists to a state in which neither exists.
NeverWithoutCopy ==
  [][(fs["P"].exists \/ fs["B"].exists) =>
       (fs'["P"].exists \/ fs'["B"].exists)]_vars

NeverWithoutCopyWitness ==
  /\ pc = "promote"
  /\ atClose["P"].exists /\ atClose["B"].exists
  /\ ~fs["P"].exists /\ fs["B"] = atClose["P"]

\* C20: crash with P present.  When a write session that had P after its
\* recovery was killed, the recovery of the next session leaves P holding
\* what it held then if the kill came before the rename of P to B was done,
\* and otherwise the complete new content, with B holding the old content
\* of P.
CrashWithPrimary ==
  (pc = "select" /\ prev.outcome = "crash" /\ prev.wsession
     /\ prev.P.exists) =>
     /\ prev.at = "before" => fs["P"] = prev.P
     /\ prev.at = "promote" =>
           /\ prev.full
           /\ fs["P"] = File(prev.data)
           /\ fs["B"] = prev.P

CrashWithPrimaryWitness ==
  /\ pc = "select" /\ prev.outcome = "crash" /\ prev.wsession
  /\ prev.P.exists /\ prev.at = "promote"
  /\ prev.data # prev.P.content
  /\ fs["P"] = File(prev.data) /\ fs["B"] = prev.P

\* C21: a writable session whose close returns normally ends with P
\* existing and holding exactly the content written in that session, also
\* when another actor deleted P, B or T while the handle was open.  Runs
\* in which T still existed at the close of the handle and vanished only
\* before its rename are left out.
CommitHoldsWritten ==
  (pc = "done" /\ outcome = "commit" /\ raising = "none"
     /\ ("promote" \in hlog.absorbed => ~atClose["T"].exists)) =>
     fs["P"] = File(data)

TypeOK ==
  /\ fs \in [Paths -> FileStates]
  /\ pc \in {"idle", "probe_finally", "recover", "select", "open", "commit",
             "delete_backup", "demote", "promote", "rollback", "done",
             "recover_act", "opening", "mismatch"}
  /\ mode \in Modes \cup {"-"}
  /\ writable \in BOOLEAN
  /\ normal \in BOOLEAN
  /\ data \in Contents
  /\ nsess \in 0..MaxSessions
====
